---- MODULE Spec2Model ----
(***************************************************************************)
(* A model of src/main.py (AES events scraper).                            *)
(*                                                                         *)
(* Spec     models AESScraper.run: the catalog fetch, then the division    *)
(*          phase and the event phase, each a ThreadPoolExecutor fan-out   *)
(*          collected by the calling thread with as_completed, then the    *)
(*          hand-over to the Excel writer.                                 *)
(* SpecGet  models one detail GET issued through the session built by      *)
(*          _build_session: the attempts the mounted Retry policy makes,   *)
(*          and how the caller (_fetch_one_event / _fetch_one_division)    *)
(*          resolves the final response.                                   *)
(***************************************************************************)
EXTENDS Integers, Sequences, FiniteSets, TLC

\* ------------------------------------------------------------------------
\* Bounds of the model.
MaxItems == 2      \* catalog length
MaxWorkers == 2    \* the `workers` argument of run
MaxDivs == 1       \* length of a division list in a response

\* ------------------------------------------------------------------------
\* JSON values of the identifiers of a catalog item.  A key can be absent
\* from the dict, present with JSON null (Python None) or hold an integer.
Missing == [t |-> "missing", v |-> 0]
Null == [t |-> "null", v |-> 0]
JInt(n) == [t |-> "int", v |-> n]

\* dict.get(key): None for an absent key.
DictGet(x) == IF x.t = "missing" THEN Null ELSE x

\* Python truthiness of a JSON identifier: None and 0 are falsy.
Truthy(x) == x.t = "int" /\ x.v # 0

\* f"{x}" of an identifier: None formats as the text None.
Fmt(x) == IF x.t = "int" THEN ToString(x.v) ELSE "None"

\* str(x or ""), as parse_event_api / parse_division_api read an identifier.
StrOrEmpty(x) == IF Truthy(DictGet(x)) THEN ToString(x.v) ELSE ""

\* Catalog items the listing may hold: every mix of absent and present
\* identifiers that the detail fetchers tell apart.
Items ==
    { [eventId |-> JInt(1), eventSchedulerId |-> Null],
      [eventId |-> Null, eventSchedulerId |-> JInt(7)],
      [eventId |-> Null, eventSchedulerId |-> Null],
      [eventId |-> Null, eventSchedulerId |-> Missing],
      [eventId |-> Missing, eventSchedulerId |-> JInt(7)],
      [eventId |-> Missing, eventSchedulerId |-> Missing] }

Catalogs == UNION { [1..n -> Items] : n \in 0..MaxItems }

\* ------------------------------------------------------------------------
\* Threads and sessions.
MainThread == "main"
\* The one Session object built in __init__ and kept in self.sess.
SelfSess == "self.sess"
NoSess == "none"

\* The session a detail fetch sends its GET on: _fetch_one_event and
\* _fetch_one_division both read self.sess (_thread_session is never called).
FetchSession == SelfSess

\* ------------------------------------------------------------------------
\* URLs.
ApiBase == "https://www.advancedeventsystems.com/api/landing/events/"
EventUrl(id) == ApiBase \o Fmt(id)
SchedulerUrl(sid) == ApiBase \o "scheduler/" \o Fmt(sid)
DivisionsUrl(id) == ApiBase \o ToString(id.v) \o "/divisions"

\* ------------------------------------------------------------------------
\* json.dumps(item)[:500]
ItemMaxLen == 500
DumpVal(x) == IF x.t = "int" THEN ToString(x.v) ELSE "null"
DumpKey(k, x) == "\"" \o k \o "\": " \o DumpVal(x)
DumpStr(k, s) == "\"" \o k \o "\": \"" \o s \o "\""
RECURSIVE Join(_)
Join(parts) ==
    IF parts = <<>> THEN ""
    ELSE IF Len(parts) = 1 THEN parts[1]
    ELSE parts[1] \o ", " \o Join(Tail(parts))
\* The keys are written in the order the listing gave them: an item with
\* other fields is modelled with one, "name", ahead of the identifiers.
Dumps(item) ==
    LET a == item.eventId
        b == item.eventSchedulerId
        parts == <<IF "name" \in DOMAIN item THEN DumpStr("name", item.name)
                   ELSE "",
                   IF a.t = "missing" THEN "" ELSE DumpKey("eventId", a),
                   IF b.t = "missing" THEN ""
                   ELSE DumpKey("eventSchedulerId", b)>>
    IN  "{" \o Join(SelectSeq(parts, LAMBDA x : x # "")) \o "}"
\* s[:500] without the cut.
TruncateNone(s) == s
Truncate(s) == IF Len(s) <= ItemMaxLen THEN s ELSE SubSeq(s, 1, ItemMaxLen)

\* Catalog items with a long text field and a scheduler id only: the
\* serialization fits in ItemMaxLen characters, or is longer and the cut
\* falls before the identifier.  The one with an event id has requests in
\* both phases.
RECURSIVE Pad(_)
Pad(n) ==
    IF n = 0 THEN ""
    ELSE LET half == Pad(n \div 2)
         IN  IF n % 2 = 0 THEN half \o half ELSE half \o half \o "x"
LongItem(n, id, sid) ==
    [name |-> Pad(n), eventId |-> id, eventSchedulerId |-> sid]
LongItems ==
    { LongItem(0, Null, JInt(7)),
      LongItem(ItemMaxLen, Null, JInt(7)),
      LongItem(ItemMaxLen, JInt(1), Null) }
LongCatalogs == UNION { [1..n -> LongItems] : n \in 0..MaxItems }

\* ------------------------------------------------------------------------
\* Outcome of a future: a returned list of records, or a raised exception.
\* Which exception was raised only shows in the diagnostic text repr(e) of
\* the error record, which the model does not tell apart.
Pending == [kind |-> "pending", val |-> <<>>]
Returned(recs) == [kind |-> "ok", val |-> recs]
Raised == [kind |-> "exc", val |-> <<>>]

\* ------------------------------------------------------------------------
\* A decoded JSON body: its shape and, for an array or an object wrapping an
\* array under "value", the elements.  An event detail is an object, held
\* as the one element of `value`.
NoBody == [shape |-> "none", value |-> <<>>]

\* ------------------------------------------------------------------------
\* Final results of sess.get (what the adapter hands back once its retries
\* are over): a raised transport error, or a response with a status and a
\* body.  A 200 body is undecodable text or a JSON payload.
ErrorStatuses == {404, 503}
FinalResponses(payloads) ==
    { [kind |-> "transport", code |-> 0, json |-> FALSE, payload |-> NoBody] }
    \cup { [kind |-> "response", code |-> c, json |-> FALSE, payload |-> NoBody] :
              c \in ErrorStatuses }
    \cup { [kind |-> "response", code |-> 200, json |-> FALSE, payload |-> NoBody] }
    \cup { [kind |-> "response", code |-> 200, json |-> TRUE, payload |-> p] :
              p \in payloads }

\* Response.raise_for_status: raises HTTPError for 4xx and 5xx.
RaisesForStatus(code) == code >= 400 /\ code < 600

\* ------------------------------------------------------------------------
\* Other JSON values a payload field may hold: a string, an object (its
\* fields, a function from keys) and a list (its elements).
JStr(s) == [t |-> "str", s |-> s]
JObj(f) == [t |-> "obj", f |-> f]
JList(xs) == [t |-> "list", xs |-> xs]
EmptyDict == JObj(<<>>)

\* Python truthiness: None, 0, "", {} and [] are falsy.
Truth(x) ==
    CASE x.t = "int" -> x.v # 0
      [] x.t = "str" -> x.s # ""
      [] x.t = "obj" -> DOMAIN x.f # {}
      [] x.t = "list" -> x.xs # <<>>
      [] OTHER -> FALSE

\* A decoded dict is a record of its keys; every other decoded value
\* carries its type in t.
IsDict(d) == "t" \notin DOMAIN d
\* data.get(k) on a decoded dict.
Field(data, k) == IF k \in DOMAIN data THEN DictGet(data[k]) ELSE Null
\* x.get(k) on an object value.
Get(x, k) == IF k \in DOMAIN x.f THEN DictGet(x.f[k]) ELSE Null
\* `x or {}`
OrDict(x) == IF Truth(x) THEN x ELSE EmptyDict
\* (x or {}).get(...): only a dict has .get (AttributeError otherwise).
GetRaises(x) == OrDict(x).t # "obj"

\* Lines 45-51: `not iso` returns "" for a falsy value; iso.replace raises
\* AttributeError for a truthy value that is no string, and only ValueError
\* (a string that is no ISO date) is caught.
FmtDateRaises(iso) == Truth(iso) /\ iso.t # "str"

\* Lines 151-158: addr.get and (addr.get("state") or {}).get.
AddressRaises(addr) ==
    \/ GetRaises(addr)
    \/ GetRaises(Get(OrDict(addr), "state"))

\* Whether parse_event_api(data) raises (lines 139-169).
ParseEventRaises(data) ==
    \/ ~IsDict(data)
    \/ GetRaises(Field(data, "affiliation"))
    \/ GetRaises(Field(data, "eventType"))
    \/ AddressRaises(Field(data, "address"))
    \/ FmtDateRaises(Field(data, "startDate"))
    \/ FmtDateRaises(Field(data, "endDate"))

\* Whether parse_division_api(d) raises (lines 171-183): d.get on an
\* element that is no dict.
ParseDivisionRaises(d) == ~IsDict(d)

\* parse_event_api, restricted to the identifier fields.
parse_event_api(data) ==
    LET eid == StrOrEmpty(data.eventId)
    IN  [event_id |-> eid,
         event_url |-> IF eid # ""
                       THEN "https://www.advancedeventsystems.com/events/" \o eid
                       ELSE ""]

\* parse_division_api, restricted to the identifier fields.
parse_division_api(d) ==
    [event_id |-> StrOrEmpty(d.eventId),
     event_division_assignment_id |-> StrOrEmpty(d.eventDivisionAssignmentId)]

\* Event detail bodies the server may answer for an item: the detail of the
\* event, echoing the item's identifier (null when it has none).
EventPayloads(item) ==
    { [shape |-> "object", value |-> <<[eventId |-> DictGet(item.eventId)]>>] }

\* Division-list bodies the server may answer for an event id: a bare
\* array, an object wrapping the array under "value", or null.
DivisionObj(id, k) == [eventId |-> id, eventDivisionAssignmentId |-> JInt(k)]
DivisionLists(item) ==
    { [k \in 1..n |-> DivisionObj(item.eventId, k)] : n \in 0..MaxDivs }
DivisionPayloads(item) ==
    { [shape |-> sh, value |-> L] :
         sh \in {"array", "object"}, L \in DivisionLists(item) }
    \cup { [shape |-> "null", value |-> <<>>] }

\* Event detail bodies with fields of every kind: absent, null, of the
\* documented type, or of another type.
TextKinds == {Missing, Null, JStr("2024-03-01T00:00:00Z"), JInt(20240301)}
ObjectKinds ==
    {Missing, Null, JObj([description |-> JStr("Club")]), JStr("Club"),
     JList(<<JStr("Club")>>)}
AddressKinds ==
    {Missing, Null,
     JObj([city |-> JStr("Omaha"), state |-> JObj([abbreviation |-> JStr("NE")])]),
     JObj([city |-> JStr("Omaha"), state |-> JStr("NE")]),
     JStr("Omaha, NE")}
RichEventPayloads(item) ==
    { [shape |-> "object",
       value |-> <<[eventId |-> DictGet(item.eventId), affiliation |-> a,
                    address |-> ad, startDate |-> d]>>] :
         a \in ObjectKinds, ad \in AddressKinds, d \in TextKinds }
    \cup { [shape |-> "null", value |-> <<Null>>] }

\* Division-list bodies whose elements carry the event id of the request,
\* another one, null or none, or are no objects; bodies {"value": null},
\* an object without "value" (iterating it yields its keys) and a number.
OtherId == JInt(2)
RichDivisionElements(item, k) ==
    { DivisionObj(id, k) : id \in {item.eventId, OtherId, Null, Missing} }
    \cup { Null }
RichDivisionLists(item) ==
    UNION { { L \in [1..n -> UNION { RichDivisionElements(item, k) : k \in 1..n }] :
                \A k \in 1..n : L[k] \in RichDivisionElements(item, k) } :
            n \in 0..MaxDivs }
RichDivisionPayloads(item) ==
    { [shape |-> sh, value |-> L] :
         sh \in {"array", "object"}, L \in RichDivisionLists(item) }
    \cup { [shape |-> "null", value |-> <<>>],
           [shape |-> "object_null", value |-> <<>>],
           [shape |-> "object_other", value |-> <<JStr("message")>>],
           [shape |-> "number", value |-> <<>>] }

\* Divisions, were the body always taken for the list itself.
DivisionsBareOnly(payload) ==
    IF payload.shape \in {"null", "object_null"} THEN <<>>
    ELSE IF payload.shape = "object" THEN <<JStr("value")>>
    ELSE payload.value

\* Lines 113-117: payload["value"] if the body is a dict holding "value",
\* else the body itself; `or []` turns None and the empty list into [].
Divisions(payload) ==
    IF payload.shape \in {"null", "object_null"} THEN <<>> ELSE payload.value

\* Line 119: `for d in divisions` over a truthy value that is no list or
\* dict raises TypeError.
IterRaises(payload) == payload.shape = "number"

\* Lines 98-101: the body of `with self.sess.get(url) as r` in
\* _fetch_one_event.
EventOutcome(resp) ==
    IF resp.kind = "transport" THEN Raised
    ELSE IF RaisesForStatus(resp.code) THEN Raised
    ELSE IF ~resp.json THEN Raised
    ELSE IF ParseEventRaises(resp.payload.value[1]) THEN Raised
    ELSE Returned(<<parse_event_api(resp.payload.value[1])>>)

\* Lines 109-119: the same for _fetch_one_division.
DivisionOutcome(resp) ==
    IF resp.kind = "transport" THEN Raised
    ELSE IF RaisesForStatus(resp.code) THEN Raised
    ELSE IF ~resp.json THEN Raised
    ELSE IF IterRaises(resp.payload) THEN Raised
    ELSE LET divisions == Divisions(resp.payload)
         IN  IF \E k \in 1..Len(divisions) : ParseDivisionRaises(divisions[k])
             THEN Raised
             ELSE Returned([k \in 1..Len(divisions) |->
                              parse_division_api(divisions[k])])

\* ------------------------------------------------------------------------
\* State of run.
VARIABLES
    pc,                \* where the thread calling run is
    workers,           \* the `workers` argument
    fetched,           \* catalog requests made so far (history)
    events,            \* the catalog listing (line 187)
    phase,             \* "division" (lines 195-212) or "event" (214-230)
    nsub,              \* futures submitted so far in this phase
    task,              \* per catalog index: the future of this phase
    net,               \* detail GETs issued so far (history)
    outcome,           \* per phase and catalog index: how the fetch ended
                       \* (history; the futures of a phase are dropped
                       \* when the next phase starts)
    event_records, event_errors, division_records, division_errors,
    written,           \* what was handed to the Excel writer
    \* State of one GET through the adapter (SpecGet).
    total,             \* Retry.total still left
    attempts,          \* attempts made for this request (history)
    last,              \* how the last attempt ended
    getst,             \* "idle", "sending", "returned", "raised", "resolved"
    body,              \* the body of the response sess.get returned (history)
    getres             \* outcome of the fetch that issued the GET

lists == <<event_records, event_errors, division_records, division_errors>>
runvars == <<pc, workers, fetched, events, phase, nsub, task, net, outcome, lists,
             written>>
getvars == <<total, attempts, last, getst, body, getres>>
vars == <<runvars, getvars>>

Idx == 1..Len(events)

NewTask == [st |-> "new", res |-> Pending, sess |-> NoSess, url |-> ""]

NoOutcomes(n) ==
    [division |-> [i \in 1..n |-> Pending], event |-> [i \in 1..n |-> Pending]]

NotWritten == [done |-> FALSE, events |-> <<>>, event_errors |-> <<>>,
               divisions |-> <<>>, division_errors |-> <<>>]

\* The GET machine at rest, as the pipeline leaves it.
UnreadBody == [json |-> FALSE, payload |-> NoBody]
NoAttempt == [kind |-> "none", code |-> 0, retry_after |-> FALSE]
GetIdle ==
    /\ total = 0 /\ attempts = 0 /\ last = NoAttempt
    /\ getst = "idle" /\ getres = Pending
    /\ body = UnreadBody

Init ==
    /\ pc = "start"
    /\ workers \in 1..MaxWorkers
    /\ fetched = <<>>
    /\ events = <<>>
    /\ phase = "division"
    /\ nsub = 0
    /\ task = <<>>
    /\ net = {}
    /\ outcome = NoOutcomes(0)
    /\ event_records = <<>> /\ event_errors = <<>>
    /\ division_records = <<>> /\ division_errors = <<>>
    /\ written = NotWritten
    /\ GetIdle

\* Lines 121-133: fetch_total_counts and fetch_events call requests.get
\* directly, with no timeout argument and without the session, and read
\* one key of the decoded body.  How one such request can end:
\*   "ok"           a JSON body with the key
\*   "unreachable"  requests.get raises (ConnectionError)
\*   "not_json"     .json() raises
\*   "no_field"     the subscript raises KeyError
\*   "silent"       the server accepts and never answers
\* A detail GET nobody answers ends, by its timeout, as a transport failure
\* (the "transport" response of FinalResponses).
NoTimeout == <<>>
CatalogTimeout == NoTimeout
DetailTimeout == <<5, 120>>

CatalogRaises == {"unreachable", "not_json", "no_field"}

CatalogRequest(what, result) ==
    [req |-> what, timeout |-> CatalogTimeout, result |-> result]

CatalogFetched == <<CatalogRequest("count", "ok"), CatalogRequest("listing", "ok")>>

\* The count request ends with c; the listing request is made only when the
\* count request returned.
CatalogEndings(results) ==
    { <<CatalogRequest("count", c)>> : c \in results }
    \cup { <<CatalogRequest("count", "ok"), CatalogRequest("listing", l)>> :
              l \in results }

\* A request nobody answers: with a timeout requests raises, without one
\* the calling thread stays in the socket read.
OnSilence(timeout) == IF timeout = NoTimeout THEN "blocked" ELSE "aborted"

\* Lines 186-187: fetch_total_counts and fetch_events.  Both are outside any
\* try: a failure propagates out of run.
FetchCatalog(cat) ==
    /\ pc = "start"
    /\ fetched' = CatalogFetched
    /\ events' = cat
    /\ task' = [i \in 1..Len(cat) |-> NewTask]
    /\ outcome' = NoOutcomes(Len(cat))
    /\ pc' = "submit"
    /\ UNCHANGED <<workers, phase, nsub, net, lists, written, getvars>>

\* A run that takes a failed catalog fetch for an empty catalog.
CatalogFailsAsEmpty(f) ==
    /\ pc = "start"
    /\ fetched' = f
    /\ pc' = "submit"
    /\ UNCHANGED <<workers, events, phase, nsub, task, net, outcome, lists,
                   written, getvars>>

CatalogFails(f) ==
    /\ pc = "start"
    /\ fetched' = f
    /\ pc' = "aborted"
    /\ UNCHANGED <<workers, events, phase, nsub, task, net, outcome, lists,
                   written, getvars>>

CatalogSilent(f) ==
    /\ pc = "start"
    /\ fetched' = f
    /\ pc' = OnSilence(CatalogTimeout)
    /\ UNCHANGED <<workers, events, phase, nsub, task, net, outcome, lists,
                   written, getvars>>

\* Lines 196-198 / 215-217: ex.submit for the next catalog item.
Submit ==
    /\ pc = "submit"
    /\ nsub < Len(events)
    /\ nsub' = nsub + 1
    /\ task' = [task EXCEPT ![nsub + 1].st = "queued"]
    /\ UNCHANGED <<pc, workers, fetched, events, phase, net, outcome, lists, written,
                   getvars>>

\* The dict comprehension is over: the thread enters the as_completed loop.
EnterCollect ==
    /\ pc = "submit"
    /\ nsub = Len(events)
    /\ pc' = "collect"
    /\ UNCHANGED <<workers, fetched, events, phase, nsub, task, net, outcome, lists,
                   written, getvars>>

\* The work queue of the executor is first-in first-out: the next future a
\* free worker thread takes is the oldest one still queued.
QueueHead(i) ==
    task[i].st = "queued" /\ \A j \in 1..(i - 1) : task[j].st # "queued"
Running == { i \in Idx : task[i].st = "running" }

\* What _fetch_one_division does before it blocks on the network (lines
\* 104-109): an item without event id returns [] at once, any other issues
\* the GET of its division list.
\* StartDivision, were int(event_id) evaluated before the None check.
StartDivisionIntFirst(item) ==
    LET event_id == DictGet(item.eventId)
    IN  IF event_id.t = "null"
        THEN [st |-> "finished", res |-> Raised, sess |-> NoSess, url |-> ""]
        ELSE [st |-> "running", res |-> Pending, sess |-> FetchSession,
              url |-> DivisionsUrl(event_id)]
StartDivision(item) ==
    LET event_id == DictGet(item.eventId)
    IN  IF event_id.t = "null"
        THEN [st |-> "finished", res |-> Returned(<<>>), sess |-> NoSess,
              url |-> ""]
        ELSE [st |-> "running", res |-> Pending, sess |-> FetchSession,
              url |-> DivisionsUrl(event_id)]

\* What _fetch_one_event does before it blocks on the network (lines
\* 90-98): item["eventId"] and item["eventSchedulerId"] raise KeyError for
\* an absent key; a None event id selects the scheduler URL.
StartEvent(item) ==
    IF item.eventId.t = "missing"
    THEN [st |-> "finished", res |-> Raised, sess |-> NoSess, url |-> ""]
    ELSE IF item.eventId.t = "null"
    THEN IF item.eventSchedulerId.t = "missing"
         THEN [st |-> "finished", res |-> Raised, sess |-> NoSess, url |-> ""]
         ELSE [st |-> "running", res |-> Pending, sess |-> FetchSession,
               url |-> SchedulerUrl(item.eventSchedulerId)]
    ELSE [st |-> "running", res |-> Pending, sess |-> FetchSession,
          url |-> EventUrl(item.eventId)]

\* StartOf, were the event fetch given up for an item whose division
\* fetch has failed.
StartOfSkipFailed(ph, item) ==
    IF ph = "division" THEN StartDivision(item)
    ELSE IF \E k \in 1..Len(division_errors) :
               division_errors[k].rec.item = Truncate(Dumps(item))
    THEN [st |-> "finished", res |-> Raised, sess |-> NoSess, url |-> ""]
    ELSE StartEvent(item)

StartOf(ph, item) ==
    IF ph = "division" THEN StartDivision(item) ELSE StartEvent(item)

\* Start, were the pool to give every submitted future a thread of its own.
StartThreadPerFuture(i) ==
    /\ QueueHead(i)
    /\ LET t == StartOf(phase, events[i])
       IN  /\ task' = [task EXCEPT ![i] = t]
           /\ outcome' = [outcome EXCEPT ![phase][i] = t.res]
           /\ net' = IF t.st = "running"
                     THEN net \cup {[phase |-> phase, idx |-> i, url |-> t.url]}
                     ELSE net
    /\ UNCHANGED <<pc, workers, fetched, events, phase, nsub, lists, written,
                   getvars>>

\* A worker thread of the pool takes the oldest queued future and runs the
\* fetch function up to its GET.  The pool has at most `workers` threads,
\* each running one future at a time.
Start(i) ==
    /\ QueueHead(i)
    /\ Cardinality(Running) < workers
    /\ LET t == StartOf(phase, events[i])
       IN  /\ task' = [task EXCEPT ![i] = t]
           /\ outcome' = [outcome EXCEPT ![phase][i] = t.res]
           /\ net' = IF t.st = "running"
                     THEN net \cup {[phase |-> phase, idx |-> i, url |-> t.url]}
                     ELSE net
    /\ UNCHANGED <<pc, workers, fetched, events, phase, nsub, lists, written, getvars>>

\* An entry of a result list; src (the catalog index the entry comes from)
\* and by (the thread that appended it) are history.
Entry(i, thread, x) == [src |-> i, by |-> thread, rec |-> x]

ErrorRecord(item) ==
    [where |-> "detail", message |-> "repr(e)", item |-> Truncate(Dumps(item))]

Entries(i, thread, recs) == [k \in 1..Len(recs) |-> Entry(i, thread, recs[k])]

ResponsesFor(ph, item) ==
    IF ph = "division" THEN FinalResponses(DivisionPayloads(item))
    ELSE FinalResponses(EventPayloads(item))

OutcomeOf(ph, resp) ==
    IF ph = "division" THEN DivisionOutcome(resp) ELSE EventOutcome(resp)

\* Respond, were the worker thread itself to append the record it parsed
\* to the shared list (and the calling thread to collect it again).
RespondAndAppend(i, resp) ==
    /\ task[i].st = "running"
    /\ task' = [task EXCEPT ![i].st = "finished",
                            ![i].res = OutcomeOf(phase, resp)]
    /\ outcome' = [outcome EXCEPT ![phase][i] = OutcomeOf(phase, resp)]
    /\ IF phase = "event" /\ OutcomeOf(phase, resp).kind = "ok"
       THEN /\ event_records' = Append(event_records,
                   Entry(i, "worker", OutcomeOf(phase, resp).val[1]))
            /\ UNCHANGED <<event_errors, division_records, division_errors>>
       ELSE UNCHANGED lists
    /\ UNCHANGED <<pc, workers, fetched, events, phase, nsub, net, written, getvars>>

\* The GET of a running fetch ends with `resp`; the rest of the fetch
\* function runs and the future is resolved.
Respond(i, resp) ==
    /\ task[i].st = "running"
    /\ task' = [task EXCEPT ![i].st = "finished",
                            ![i].res = OutcomeOf(phase, resp)]
    /\ outcome' = [outcome EXCEPT ![phase][i] = OutcomeOf(phase, resp)]
    /\ UNCHANGED <<pc, workers, fetched, events, phase, nsub, net, lists, written,
                   getvars>>

\* CollectDivision, were the returned list assigned to division_records
\* instead of appended to it.
CollectDivisionAssign(i) ==
    LET r == task[i].res
    IN  IF r.kind = "ok"
        THEN /\ division_records' =
                    IF r.val # <<>> THEN Entries(i, MainThread, r.val)
                    ELSE division_records
             /\ UNCHANGED division_errors
        ELSE /\ division_errors' = Append(division_errors,
                    Entry(i, MainThread, ErrorRecord(events[i])))
             /\ UNCHANGED division_records

\* Lines 200-212: one turn of the division loop for a completed future.
CollectDivision(i) ==
    LET r == task[i].res
    IN  IF r.kind = "ok"
        THEN /\ division_records' =
                    division_records \o Entries(i, MainThread, r.val)
             /\ UNCHANGED division_errors
        ELSE /\ division_errors' = Append(division_errors,
                    Entry(i, MainThread, ErrorRecord(events[i])))
             /\ UNCHANGED division_records

\* CollectEvent, were the except branch to drop the failure.
CollectEventSwallow(i) ==
    LET r == task[i].res
    IN  IF r.kind = "ok"
        THEN /\ event_records' =
                    Append(event_records, Entry(i, MainThread, r.val[1]))
             /\ UNCHANGED event_errors
        ELSE UNCHANGED <<event_records, event_errors>>

\* CollectEvent, were it to read the result of the last future that is
\* done instead of the one as_completed yielded.
CollectEventLatest(i) ==
    LET done == { j \in Idx : task[j].st = "finished" }
        j == CHOOSE m \in done : \A n \in done : n <= m
        r == task[j].res
    IN  IF r.kind = "ok"
        THEN /\ event_records' =
                    Append(event_records, Entry(i, MainThread, r.val[1]))
             /\ UNCHANGED event_errors
        ELSE /\ event_errors' = Append(event_errors,
                    Entry(i, MainThread, ErrorRecord(events[i])))
             /\ UNCHANGED event_records

\* Lines 219-230: one turn of the event loop for a completed future.
CollectEvent(i) ==
    LET r == task[i].res
    IN  IF r.kind = "ok"
        THEN /\ event_records' =
                    Append(event_records, Entry(i, MainThread, r.val[1]))
             /\ UNCHANGED event_errors
        ELSE /\ event_errors' = Append(event_errors,
                    Entry(i, MainThread, ErrorRecord(events[i])))
             /\ UNCHANGED event_records

\* Collect, were fut.result() called outside any try: the exception of a
\* failed fetch leaves run.
CollectNoTry(i) ==
    /\ pc = "collect"
    /\ task[i].st = "finished"
    /\ task' = [task EXCEPT ![i].st = "collected"]
    /\ IF task[i].res.kind = "exc"
       THEN pc' = "aborted" /\ UNCHANGED lists
       ELSE /\ pc' = pc
            /\ IF phase = "division"
               THEN CollectDivision(i)
                    /\ UNCHANGED <<event_records, event_errors>>
               ELSE CollectEvent(i)
                    /\ UNCHANGED <<division_records, division_errors>>
    /\ UNCHANGED <<workers, fetched, events, phase, nsub, net, outcome, written,
                   getvars>>

\* as_completed yields a future that is done and was not yielded before;
\* the calling thread runs the loop body on it.
Collect(i) ==
    /\ pc = "collect"
    /\ task[i].st = "finished"
    /\ task' = [task EXCEPT ![i].st = "collected"]
    /\ IF phase = "division"
       THEN CollectDivision(i) /\ UNCHANGED <<event_records, event_errors>>
       ELSE CollectEvent(i) /\ UNCHANGED <<division_records, division_errors>>
    /\ UNCHANGED <<pc, workers, fetched, events, phase, nsub, net, outcome, written,
                   getvars>>

\* AllCollected, were the loop to go over the futures that are done when it
\* looks instead of blocking in as_completed until each one is.
NoneLeftDone == \A i \in Idx : task[i].st # "finished"
AllCollected == \A i \in Idx : task[i].st = "collected"

\* EndDivisionPhase, were the division executor left without waiting for
\* its futures.
EndDivisionPhaseNoWait ==
    /\ pc = "collect" /\ phase = "division"
    /\ phase' = "event"
    /\ pc' = "submit"
    /\ nsub' = 0
    /\ task' = [i \in Idx |-> NewTask]
    /\ UNCHANGED <<workers, fetched, events, net, outcome, lists, written,
                   getvars>>

\* as_completed is exhausted once every future was yielded; the `with`
\* block ends (executor shutdown, wait=True) and the next phase starts.
EndDivisionPhase ==
    /\ pc = "collect" /\ phase = "division"
    /\ AllCollected
    /\ phase' = "event"
    /\ pc' = "submit"
    /\ nsub' = 0
    /\ task' = [i \in Idx |-> NewTask]
    /\ UNCHANGED <<workers, fetched, events, net, outcome, lists, written, getvars>>

EndEventPhase ==
    /\ pc = "collect" /\ phase = "event"
    /\ AllCollected
    /\ pc' = "write"
    /\ UNCHANGED <<workers, fetched, events, phase, nsub, task, net, outcome, lists,
                   written, getvars>>

\* Lines 232-256: the four lists go to the Excel writer and run returns.
WriteOutput ==
    /\ pc = "write"
    /\ written' = [done |-> TRUE,
                   events |-> event_records,
                   event_errors |-> event_errors,
                   divisions |-> division_records,
                   division_errors |-> division_errors]
    /\ pc' = "done"
    /\ UNCHANGED <<workers, fetched, events, phase, nsub, task, net, outcome, lists,
                   getvars>>

Next ==
    \/ \E cat \in Catalogs : FetchCatalog(cat)
    \/ \E f \in CatalogEndings(CatalogRaises) : CatalogFails(f)
    \/ \E f \in CatalogEndings({"silent"}) : CatalogSilent(f)
    \/ Submit
    \/ EnterCollect
    \/ \E i \in Idx : Start(i)
    \/ \E i \in Idx : \E resp \in ResponsesFor(phase, events[i]) :
          Respond(i, resp)
    \/ \E i \in Idx : Collect(i)
    \/ EndDivisionPhase
    \/ EndEventPhase
    \/ WriteOutput

Spec == Init /\ [][Next]_vars

\* The run over catalogs of items with a long text field.
NextLong ==
    \/ \E cat \in LongCatalogs : FetchCatalog(cat)
    \/ \E f \in CatalogEndings(CatalogRaises) : CatalogFails(f)
    \/ \E f \in CatalogEndings({"silent"}) : CatalogSilent(f)
    \/ Submit
    \/ EnterCollect
    \/ \E i \in Idx : Start(i)
    \/ \E i \in Idx : \E resp \in ResponsesFor(phase, events[i]) :
          Respond(i, resp)
    \/ \E i \in Idx : Collect(i)
    \/ EndDivisionPhase
    \/ EndEventPhase
    \/ WriteOutput

SpecLong == Init /\ [][NextLong]_vars

\* ------------------------------------------------------------------------
\* One detail GET through the session of _build_session (lines 72-87).
\*
\* The HTTPAdapter is mounted with max_retries = Retry(total=5,
\* backoff_factor=0.5, status_forcelist=(429, 500, 502, 503, 504),
\* allowed_methods={"GET"}, raise_on_status=False); every request of the
\* scraper is a GET.  The adapter runs urllib3's urlopen loop: after each
\* failed attempt Retry.increment takes one off `total` and the request is
\* given up once the count is below zero; Retry.is_retry decides whether a
\* response is retried.  respect_retry_after_header is left at its default
\* (True), so a response carrying Retry-After is also retried when its
\* status is one of Retry.RETRY_AFTER_STATUS_CODES and total is not zero.

\* Retry(total=...) set one higher.
RetryTotalOff == 5 + 1
RetryTotal == 5
StatusForcelist == {429, 500, 502, 503, 504}
RetryAfterStatusCodes == {413, 429, 503}

\* Statuses the server answers an attempt with.
Statuses == {200, 404, 413} \cup StatusForcelist

\* How one attempt can end: a transport failure (connection error, connect
\* or read timeout), or a response with a status, with or without a
\* Retry-After header.
AttemptResults ==
    { [kind |-> "transport", code |-> 0, retry_after |-> FALSE] }
    \cup { [kind |-> "response", code |-> c, retry_after |-> ra] :
              c \in Statuses, ra \in BOOLEAN }

\* is_retry, were every error status retried.
IsRetryAnyError(t, code, ra) == code >= 400
\* Retry.is_retry for a GET.
IsRetry(t, code, ra) ==
    \/ code \in StatusForcelist
    \/ (t # 0 /\ ra /\ code \in RetryAfterStatusCodes)

\* Retry.is_exhausted, on the count left after Retry.increment.
IsExhausted(t) == t < 0

\* The fetches that reach the GET: a phase and an item whose fetch function
\* gets as far as self.sess.get.
GetCases ==
    { c \in {"division", "event"} \X Items : StartOf(c[1], c[2]).st = "running" }

InitGet ==
    /\ pc = "collect"
    /\ workers = 1
    /\ fetched = CatalogFetched
    /\ \E c \in GetCases :
          /\ phase = c[1]
          /\ events = <<c[2]>>
          /\ task = <<StartOf(c[1], c[2])>>
          /\ net = {[phase |-> c[1], idx |-> 1, url |-> StartOf(c[1], c[2]).url]}
    /\ outcome = NoOutcomes(1)
    /\ nsub = 1
    /\ event_records = <<>> /\ event_errors = <<>>
    /\ division_records = <<>> /\ division_errors = <<>>
    /\ written = NotWritten
    /\ total = RetryTotal
    /\ attempts = 0
    /\ last = NoAttempt
    /\ getst = "sending"
    /\ body = UnreadBody
    /\ getres = Pending

\* One turn of the urlopen loop: the attempt ends with `a`; the request is
\* retried (after the backoff sleep), or ends with the response returned
\* (raise_on_status=False also when the retries are used up) or with
\* MaxRetryError raised.
Attempt(a) ==
    /\ getst = "sending"
    /\ attempts' = attempts + 1
    /\ last' = a
    /\ IF a.kind = "transport"
       THEN /\ total' = total - 1
            /\ getst' = IF IsExhausted(total - 1) THEN "raised" ELSE "sending"
       ELSE IF IsRetry(total, a.code, a.retry_after)
       THEN /\ total' = total - 1
            /\ getst' = IF IsExhausted(total - 1) THEN "returned" ELSE "sending"
       ELSE /\ total' = total
            /\ getst' = "returned"
    /\ UNCHANGED <<body, getres, runvars>>

\* Bodies a returned response may carry.
Bodies(ph, item) ==
    { [json |-> FALSE, payload |-> NoBody] }
    \cup { [json |-> TRUE, payload |-> p] :
              p \in IF ph = "division" THEN RichDivisionPayloads(item)
                    ELSE RichEventPayloads(item) }

\* sess.get returned: the fetch function goes on with raise_for_status,
\* r.json() and the parse (lines 99-101, 110-119).
ResolveReturned(b) ==
    /\ getst = "returned"
    /\ getres' = OutcomeOf(phase, [kind |-> "response", code |-> last.code,
                                   json |-> b.json, payload |-> b.payload])
    /\ body' = b
    /\ getst' = "resolved"
    /\ UNCHANGED <<total, attempts, last, runvars>>

\* sess.get raised: the exception leaves the fetch function.
ResolveRaised ==
    /\ getst = "raised"
    /\ getres' = OutcomeOf(phase, [kind |-> "transport", code |-> 0,
                                   json |-> FALSE, payload |-> NoBody])
    /\ getst' = "resolved"
    /\ UNCHANGED <<total, attempts, last, body, runvars>>

\* The fetch function is over: the future is resolved with its outcome.
Deliver ==
    /\ getst = "resolved"
    /\ task[1].st = "running"
    /\ task' = [task EXCEPT ![1].st = "finished", ![1].res = getres]
    /\ outcome' = [outcome EXCEPT ![phase][1] = getres]
    /\ UNCHANGED <<pc, workers, fetched, events, phase, nsub, net, lists,
                   written, getvars>>

\* One GET, the outcome of its fetch, and the turn of the as_completed
\* loop that collects it.
NextGet ==
    \/ \E a \in AttemptResults : Attempt(a)
    \/ \E b \in Bodies(phase, events[1]) : ResolveReturned(b)
    \/ ResolveRaised
    \/ Deliver
    \/ Collect(1)

SpecGet == InitGet /\ [][NextGet]_vars

\* ------------------------------------------------------------------------
\* Properties.

\* Entries of list L that come from catalog index i.
SrcCount(L, i) == Cardinality({ k \in 1..Len(L) : L[k].src = i })
FromSrc(L, i) == SelectSeq(L, LAMBDA e : e.src = i)
RecsFrom(L, i) == [k \in 1..Len(FromSrc(L, i)) |-> FromSrc(L, i)[k].rec]
AsSet(L) == { [src |-> L[k].src, rec |-> L[k].rec] : k \in 1..Len(L) }
AllBy(L, thread) == \A k \in 1..Len(L) : L[k].by = thread

RecordList(ph) == IF ph = "division" THEN division_records ELSE event_records
ErrorList(ph) == IF ph = "division" THEN division_errors ELSE event_errors

CollectedSet == { i \in Idx : task[i].st = "collected" }
EveryFutureYielded == \A i \in Idx : task[i].st = "collected"
InRun ==
    pc \in {"start", "submit", "collect", "write", "done", "aborted", "blocked"}

\* C1: each catalog item yields exactly one outcome in the event phase, an
\* EventRecord or an ErrorRecord: while the phase runs the two lists hold
\* one entry per collected future, and once it has finished
\* len(event_records) + len(event_errors) = N.
C1_OneEventOutcomePerItem ==
    /\ phase = "division" => event_records = <<>> /\ event_errors = <<>>
    /\ (InRun /\ phase = "event") =>
          /\ Len(event_records) + Len(event_errors) = Cardinality(CollectedSet)
          /\ \A i \in Idx :
                SrcCount(event_records, i) + SrcCount(event_errors, i)
                   = IF i \in CollectedSet THEN 1 ELSE 0
    /\ pc \in {"write", "done"} =>
          Len(event_records) + Len(event_errors) = Len(events)

C1_Witness ==
    /\ pc = "done"
    /\ Len(events) >= 2
    /\ event_records # <<>>
    /\ event_errors # <<>>

\* C2: a failed fetch becomes one ErrorRecord of its phase and nothing else;
\* it never aborts the phase (run only aborts before the phases, and a
\* phase with a failed item is never stuck: a future can be yielded,
\* resolved or started, or the phase is over), every item of the phase is
\* fetched, and a successful item's result is in the phase's record list.
C2_FailureIsolatedPerItem ==
    /\ pc = "aborted" => events = <<>>
    /\ pc = "collect" =>
          \/ \E i \in Idx : task[i].st \in {"finished", "running"}
          \/ /\ \E i \in Idx : task[i].st = "queued"
             /\ Cardinality({ i \in Idx : task[i].st = "running" }) < workers
          \/ EveryFutureYielded
    /\ InRun => \A i \in Idx :
          task[i].st = "collected" =>
             IF task[i].res.kind = "exc"
             THEN /\ RecsFrom(ErrorList(phase), i) = <<ErrorRecord(events[i])>>
                  /\ SrcCount(RecordList(phase), i) = 0
             ELSE /\ RecsFrom(RecordList(phase), i) = task[i].res.val
                  /\ SrcCount(ErrorList(phase), i) = 0
    /\ (InRun /\ EveryFutureYielded /\ pc \in {"collect", "write", "done"}) =>
          \A i \in Idx : outcome[phase][i].kind \in {"ok", "exc"}

\* A phase over two items where the first failed and the second, resolved
\* after the failure was already collected, succeeded.
C2_Witness ==
    /\ pc = "collect"
    /\ Len(events) = 2
    /\ task[1].st = "collected" /\ task[1].res.kind = "exc"
    /\ task[1].sess = SelfSess
    /\ task[2].st = "collected" /\ task[2].res.kind = "ok"
    /\ ErrorList(phase)[1].src = 1
    /\ RecordList(phase) # <<>>

\* C3 (as claimed): no two detail fetches in flight at the same time use
\* the same session object.
C3_OwnSessionPerWorker ==
    \A i \in Idx : \A j \in Idx :
       (i # j /\ task[i].st = "running" /\ task[j].st = "running")
          => task[i].sess # task[j].sess

\* C4: only the thread that called run ever appends to the four result
\* lists, and concurrent completion neither loses nor repeats an outcome: a
\* future that was not yet yielded has no entry, a yielded one has its
\* error exactly once or each of its records exactly once.
C4_SingleWriterNoLossNoRepeat ==
    /\ AllBy(event_records, MainThread)
    /\ AllBy(event_errors, MainThread)
    /\ AllBy(division_records, MainThread)
    /\ AllBy(division_errors, MainThread)
    /\ InRun => \A i \in Idx :
          LET nerr == SrcCount(ErrorList(phase), i)
              nrec == SrcCount(RecordList(phase), i)
          IN  IF task[i].st = "collected"
              THEN /\ nerr = (IF outcome[phase][i].kind = "exc" THEN 1 ELSE 0)
                   /\ nrec = Len(outcome[phase][i].val)
              ELSE nerr = 0 /\ nrec = 0

\* Two futures done at the same time, waiting to be yielded, while a third
\* outcome is already in a list.
C4_Witness ==
    /\ pc = "collect"
    /\ workers >= 2
    /\ \E i \in Idx : \E j \in Idx :
          /\ i # j
          /\ task[i].st = "finished" /\ task[i].sess = SelfSess
          /\ task[j].st = "collected" /\ task[j].sess = SelfSess
          /\ SrcCount(RecordList(phase), j) + SrcCount(ErrorList(phase), j) >= 1

\* C5: the output is written, and run returns, only when every fetch of
\* both phases is resolved and collected; what is written is the complete
\* lists.
C5_NoPartialDelivery ==
    (InRun /\ (written.done \/ pc \in {"write", "done"})) =>
       /\ phase = "event"
       /\ \A i \in Idx :
             /\ task[i].st = "collected"
             /\ outcome["division"][i].kind \in {"ok", "exc"}
             /\ outcome["event"][i].kind \in {"ok", "exc"}
       /\ Len(event_records) + Len(event_errors) = Len(events)
       /\ written.done =>
             /\ pc = "done"
             /\ written.events = event_records
             /\ written.event_errors = event_errors
             /\ written.divisions = division_records
             /\ written.division_errors = division_errors

C5_Witness ==
    /\ pc = "done"
    /\ written.done
    /\ Len(events) >= 2
    /\ Len(written.divisions) + Len(written.division_errors) >= 1

\* C6: the four result sets run ends with are a function of the catalog and
\* of the per-item outcomes alone, whatever the worker count and the order
\* in which fetches start, complete and are collected.
ExpectedRecords(ph) ==
    UNION { { [src |-> i, rec |-> outcome[ph][i].val[k]] :
                 k \in 1..Len(outcome[ph][i].val) } : i \in Idx }
ExpectedErrors(ph) ==
    { [src |-> i,
       rec |-> [where |-> "detail", message |-> "repr(e)",
                item |-> Truncate(Dumps(events[i]))]] :
         i \in { j \in Idx : outcome[ph][j].kind = "exc" } }
C6_ResultSetsIndependentOfSchedule ==
    pc = "done" =>
       /\ AsSet(written.events) = ExpectedRecords("event")
       /\ AsSet(written.event_errors) = ExpectedErrors("event")
       /\ AsSet(written.divisions) = ExpectedRecords("division")
       /\ AsSet(written.division_errors) = ExpectedErrors("division")

\* A finished run in which the second item was collected before the first.
C6_Witness ==
    /\ pc = "done"
    /\ workers >= 2
    /\ Len(event_records) = 2
    /\ event_records[1].src = 2
    /\ event_records[2].src = 1

\* C7: an item without event id (key absent or null) never causes a
\* division request and contributes nothing to either division list.
C7_NoEventIdNoDivisionFetch ==
    InRun => \A i \in Idx :
       events[i].eventId.t \in {"missing", "null"} =>
          /\ ~ \E r \in net : r.phase = "division" /\ r.idx = i
          /\ outcome["division"][i] \in {Pending, Returned(<<>>)}
          /\ phase = "division" => task[i].st # "running"
          /\ SrcCount(division_records, i) = 0
          /\ SrcCount(division_errors, i) = 0

C7_Witness ==
    /\ pc = "done"
    /\ \E i \in Idx : \E j \in Idx :
          /\ events[i].eventId.t = "missing"
          /\ events[j].eventId.t = "null"
          /\ outcome["division"][i] = Returned(<<>>)
          /\ outcome["division"][j] = Returned(<<>>)

\* C8 (as claimed): the event fetch asks the event endpoint for an item
\* with an event id and the scheduler endpoint otherwise, and an item with
\* neither identifier never yields an EventRecord.
BothAbsent(item) ==
    /\ item.eventId.t \in {"missing", "null"}
    /\ item.eventSchedulerId.t \in {"missing", "null"}
C8_EndpointChoiceAndBothAbsentFail ==
    InRun => \A i \in Idx :
       /\ BothAbsent(events[i]) =>
             /\ outcome["event"][i].kind # "ok"
             /\ SrcCount(event_records, i) = 0
       /\ (~BothAbsent(events[i]) /\ phase = "event"
             /\ task[i].st \in {"running", "finished", "collected"}) =>
             [phase |-> "event", idx |-> i,
              url |-> IF events[i].eventId.t = "int"
                      THEN EventUrl(events[i].eventId)
                      ELSE SchedulerUrl(events[i].eventSchedulerId)] \in net

\* C9 (as claimed): one GET makes at most 5 attempts.
C9_AtMostFiveAttempts == attempts <= 5

\* C9 (amended): one GET makes at most 6 attempts, the first one and at most
\* 5 retries; a request still being sent has made at most 5.
C9_AtMostSixAttempts ==
    /\ attempts <= 6
    /\ getst = "sending" => attempts <= 5

C9_Witness == attempts = 6 /\ getst \in {"returned", "raised"}

\* C10 (as claimed): a GET is retried only after a transport failure or a
\* status in {429, 500, 502, 503, 504}, and a final error status resolves
\* the fetch as an error.
ForcelistRetryable(a) ==
    \/ a.kind = "transport"
    \/ (a.kind = "response" /\ a.code \in {429, 500, 502, 503, 504})
C10_RetryOnlyOnForcelist ==
    /\ (getst = "sending" /\ attempts >= 1) => ForcelistRetryable(last)
    /\ (getst = "resolved" /\ last.kind = "response" /\ last.code >= 400) =>
          getres = Raised

\* C10 (amended): a GET is retried only after a transport failure, a status
\* in {429, 500, 502, 503, 504}, or a 413 that carries a Retry-After
\* header; any other attempt (200, 404, 413 without Retry-After) is the
\* last one; a final error status resolves the fetch as an error.
C10_RetryOnlyOnForcelistOrRetryAfter ==
    /\ (getst = "sending" /\ attempts >= 1) =>
          \/ ForcelistRetryable(last)
          \/ (last.kind = "response" /\ last.code = 413 /\ last.retry_after)
    /\ (attempts >= 1 /\ last.kind = "response"
          /\ (last.code \in {200, 404} \/ (last.code = 413 /\ ~last.retry_after)))
          => getst \in {"returned", "resolved"}
    /\ (getst = "resolved" /\ last.kind = "response" /\ last.code >= 400) =>
          getres = Raised

\* A request retried at least once that ended with a 404, resolved as an
\* error.
C10_Witness ==
    /\ getst = "resolved"
    /\ attempts >= 2
    /\ last.kind = "response" /\ last.code = 404
    /\ getres = Raised

\* ------------------------------------------------------------------------
\* How the catalog requests of the run ended, when one of them failed.
CatalogFailed ==
    /\ fetched # <<>>
    /\ fetched[Len(fetched)].result \in CatalogRaises

\* C11: when the count request or the listing request fails (the endpoint is
\* unreachable, or the body is not JSON or lacks the count / the item list)
\* the failure leaves run: the run is aborted, no future was submitted, no
\* detail GET was issued, no ErrorRecord was made and nothing was written;
\* a failed count request is not followed by the listing request.
C11_CatalogFailureAbortsRun ==
    /\ CatalogFailed => pc = "aborted"
    /\ pc = "aborted" =>
          /\ CatalogFailed
          /\ \A k \in 1..(Len(fetched) - 1) : fetched[k].result = "ok"
          /\ events = <<>> /\ task = <<>> /\ nsub = 0
          /\ net = {}
          /\ event_records = <<>> /\ event_errors = <<>>
          /\ division_records = <<>> /\ division_errors = <<>>
          /\ written = NotWritten

C11_Witness ==
    /\ pc = "aborted"
    /\ Len(fetched) = 2
    /\ fetched[2].req = "listing" /\ fetched[2].result = "no_field"

\* Futures of the running phase whose fetch is executing on a worker thread.
InFlight == { i \in 1..Len(task) : task[i].st = "running" }
Waiting == { i \in 1..Len(task) : task[i].st = "queued" }

\* C12: in every reachable state at most `workers` detail fetches execute
\* at the same time, for every workers >= 1 and also when the catalog has
\* more items than workers; the other submitted items wait in the queue.
C12_AtMostWorkersInFlight ==
    /\ workers >= 1
    /\ Cardinality(InFlight) <= workers

C12_Witness ==
    /\ Len(events) > workers
    /\ Cardinality(InFlight) = workers
    /\ Waiting # {}

\* Detail requests of a phase, and those not yet answered.
Requests(ph) == { r \in net : r.phase = ph }
Unanswered(ph) == { r \in Requests(ph) : outcome[ph][r.idx] = Pending }

\* C13: the phases run one after the other.  Once an event request was
\* issued, every division future is resolved and was collected (its
\* records or its one error entry are in the division lists); a division
\* request and an event request are never both unanswered.
C13_DivisionPhaseBeforeEventPhase ==
    /\ Requests("event") # {} =>
          /\ phase = "event"
          /\ \A i \in Idx :
                /\ outcome["division"][i] # Pending
                /\ outcome["division"][i].kind = "ok" =>
                      /\ RecsFrom(division_records, i) = outcome["division"][i].val
                      /\ SrcCount(division_errors, i) = 0
                /\ outcome["division"][i].kind = "exc" =>
                      /\ SrcCount(division_errors, i) = 1
                      /\ SrcCount(division_records, i) = 0
    /\ Unanswered("division") = {} \/ Unanswered("event") = {}

C13_Witness ==
    /\ Unanswered("event") # {}
    /\ Requests("division") # {}
    /\ division_records # <<>>
    /\ division_errors # <<>>

\* Whether text s has sub as a substring.
Contains(s, sub) ==
    \E k \in 1..(Len(s) - Len(sub) + 1) : SubSeq(s, k, k + Len(sub) - 1) = sub

\* The identifier of a catalog item as its serialization shows it.
HasIdentifier(item) == item.eventId.t = "int" \/ item.eventSchedulerId.t = "int"
IdText(item) ==
    IF item.eventId.t = "int" THEN DumpKey("eventId", item.eventId)
    ELSE DumpKey("eventSchedulerId", item.eventSchedulerId)

\* The error entries of both phases, each with its phase.
ErrorEntries ==
    { <<"division", division_errors[k]>> : k \in 1..Len(division_errors) }
    \cup { <<"event", event_errors[k]>> : k \in 1..Len(event_errors) }

Prefix(s, n) == SubSeq(s, 1, IF Len(s) < n THEN Len(s) ELSE n)

\* C14 as claimed: every ErrorRecord has where = "detail" and an `item` text
\* that is the serialization of the failed item cut to at most 500
\* characters and that still contains the failed item's identifier.
C14_ErrorItemKeepsIdentifier ==
    \A pe \in ErrorEntries :
        LET e == pe[2]
            item == events[e.src]
        IN  /\ e.rec.where = "detail"
            /\ Len(e.rec.item) <= ItemMaxLen
            /\ e.rec.item = Prefix(Dumps(item), ItemMaxLen)
            /\ HasIdentifier(item) => Contains(e.rec.item, IdText(item))

\* C14: every ErrorRecord has where = "detail" and an `item` text that is
\* the first 500 characters of the serialization of exactly the item whose
\* fetch failed; the text contains that item's identifier whenever the
\* whole serialization is at most 500 characters long.
C14_ErrorItemIsCutSerialization ==
    \A pe \in ErrorEntries :
        LET e == pe[2]
            item == events[e.src]
        IN  /\ outcome[pe[1]][e.src].kind = "exc"
            /\ e.rec.where = "detail"
            /\ Len(e.rec.item) <= ItemMaxLen
            /\ e.rec.item = Prefix(Dumps(item), ItemMaxLen)
            /\ (HasIdentifier(item) /\ Len(Dumps(item)) <= ItemMaxLen) =>
                  Contains(e.rec.item, IdText(item))

\* Two items with different long texts, the fetch of the longer one failed
\* and the other returned a record.
C14_Witness ==
    /\ pc = "done"
    /\ Len(events) = 2
    /\ Len(Dumps(events[1])) > ItemMaxLen
    /\ Len(Dumps(events[2])) <= ItemMaxLen
    /\ Len(event_errors) = 1 /\ event_errors[1].src = 1
    /\ Len(event_records) = 1 /\ event_records[1].src = 2

\* C15 as claimed: every HTTP request of the run (the count request, the
\* listing request and every detail request) carries a connect/read
\* timeout, so a request the server never answers ends as a failure and
\* the run is never left waiting for it.
C15_SilentServerTimesOut ==
    /\ DetailTimeout # NoTimeout
    /\ \A k \in 1..Len(fetched) :
          fetched[k].result = "silent" =>
             /\ fetched[k].timeout # NoTimeout
             /\ pc = "aborted"
    /\ pc # "blocked"

\* ------------------------------------------------------------------------
\* The GET ended with a response of a good status whose body decoded.
Decoded ==
    /\ getst = "resolved"
    /\ last.kind = "response" /\ ~RaisesForStatus(last.code)
    /\ body.json
Elements == body.payload.value
AllObjects == \A k \in 1..Len(Elements) : IsDict(Elements[k])
\* The decoded body is what the Normalizer is written for: an event
\* object, or a list of division objects (bare or under "value").
NormalizerInput ==
    IF phase = "event" THEN body.payload.shape = "object"
    ELSE body.payload.shape \in {"array", "object"} /\ AllObjects

\* C16 as claimed: the Normalizer is total.  Whatever fields of a decoded
\* event object or division object are missing, null or of a wrong type,
\* the parse returns a record and never raises, so an item whose fetch
\* succeeded and whose body decoded never becomes an ErrorRecord.
C16_NormalizerTotal ==
    (Decoded /\ NormalizerInput) =>
       /\ getres.kind = "ok"
       /\ event_errors = <<>> /\ division_errors = <<>>

\* C17 as claimed: every DivisionRecord in the division list has the event
\* id of the catalog item whose fetch produced it, whatever event id the
\* elements of the response carry.
C17_DivisionRecordHasItemEventId ==
    \A k \in 1..Len(division_records) :
        division_records[k].rec.event_id
           = StrOrEmpty(events[division_records[k].src].eventId)

\* C19: for an item with an event id whose division request succeeds, the
\* bare array L and the object holding L under "value" give the same list
\* of DivisionRecords, one per element of L and in the order of L; a null
\* body, {"value": null} and an empty list give the empty list; none of
\* these is an error, and the collected records are those of the list.
C19_BodyShapesNormalizedAlike ==
    (Decoded /\ phase = "division") =>
       /\ (body.payload.shape \in {"array", "object"} /\ AllObjects) =>
             getres = Returned([k \in 1..Len(Elements) |->
                                  parse_division_api(Elements[k])])
       /\ (\/ body.payload.shape \in {"null", "object_null"}
           \/ body.payload.shape \in {"array", "object"} /\ Elements = <<>>) =>
             getres = Returned(<<>>)
       /\ (task[1].st = "collected" /\ getres.kind = "ok") =>
             /\ division_errors = <<>>
             /\ RecsFrom(division_records, 1) = getres.val
             /\ Len(division_records) = Len(getres.val)

C19_Witness ==
    /\ Decoded /\ phase = "division"
    /\ body.payload.shape = "object"
    /\ Elements # <<>> /\ AllObjects
    /\ task[1].st = "collected"
    /\ Len(division_records) = Len(Elements)

\* ------------------------------------------------------------------------
\* Occurrences of record r in a sequence of records, and in the lists the
\* division fetches of items 1..n returned.
CountRec(L, r) == Cardinality({ k \in 1..Len(L) : L[k] = r })
RECURSIVE Returns(_, _)
Returns(r, n) ==
    IF n = 0 THEN 0
    ELSE Returns(r, n - 1) + CountRec(outcome["division"][n].val, r)
RECURSIVE ReturnedTotal(_)
ReturnedTotal(n) ==
    IF n = 0 THEN 0
    ELSE ReturnedTotal(n - 1) + Len(outcome["division"][n].val)
DivisionRecs == [k \in 1..Len(division_records) |-> division_records[k].rec]
DivisionFailed == { i \in Idx : outcome["division"][i].kind = "exc" }

\* C20: every catalog item, duplicates included, gets one future of its own
\* per phase.  After the division phase division_records is the multiset
\* union of the lists the successful division fetches returned (each record
\* once, none dropped, an empty list adding nothing) and division_errors
\* has exactly one entry per failed item.
C20_DivisionListsAreUnionOfOutcomes ==
    /\ (InRun /\ pc \in {"collect", "write", "done"}) =>
          /\ nsub = Len(events) /\ Len(task) = Len(events)
          /\ \A i \in Idx : task[i].st # "new"
    /\ (InRun /\ phase = "event") =>
          /\ \A i \in Idx : outcome["division"][i] # Pending
          /\ Len(division_records) = ReturnedTotal(Len(events))
          /\ \A k \in 1..Len(division_records) :
                CountRec(DivisionRecs, DivisionRecs[k])
                   = Returns(DivisionRecs[k], Len(events))
          /\ \A i \in Idx : \A k \in 1..Len(outcome["division"][i].val) :
                CountRec(DivisionRecs, outcome["division"][i].val[k]) >= 1
          /\ Len(division_errors) = Cardinality(DivisionFailed)
          /\ \A i \in Idx :
                SrcCount(division_errors, i) = IF i \in DivisionFailed THEN 1 ELSE 0

\* The catalog holds the same item twice and both division fetches
\* returned the same non-empty list: every record is there twice.
C20_Witness ==
    /\ phase = "event"
    /\ Len(events) = 2 /\ events[1] = events[2]
    /\ outcome["division"][1].kind = "ok"
    /\ outcome["division"][1].val # <<>>
    /\ outcome["division"][2] = outcome["division"][1]
    /\ Len(division_records) = 2 * Len(outcome["division"][1].val)
    /\ CountRec(DivisionRecs, DivisionRecs[1]) = 2

\* ------------------------------------------------------------------------
\* Whether o is an outcome the fetch of a phase can have for an item, read
\* off the item alone: what the fetch returns without a request, or a
\* failure, or the parse of a body the server answers for the item.
RequestUrl(ph, item) ==
    IF ph = "division" THEN StartDivision(item).url ELSE StartEvent(item).url
PossibleOutcome(ph, item, o) ==
    IF RequestUrl(ph, item) = ""
    THEN o = IF ph = "division" THEN StartDivision(item).res
             ELSE StartEvent(item).res
    ELSE \/ o = Raised
         \/ /\ o.kind = "ok"
            /\ IF ph = "event"
               THEN o.val = <<parse_event_api([eventId |-> DictGet(item.eventId)])>>
               ELSE /\ Len(o.val) <= MaxDivs
                    /\ \A k \in 1..Len(o.val) :
                          o.val[k] = parse_division_api(DivisionObj(item.eventId, k))

\* C18: the phases have no data dependency.  The event lists are empty
\* until the event phase and the division lists keep their entries
\* throughout it.  In the finished run, whatever the other phase produced,
\* what each phase requested and how its fetches ended is read off the
\* catalog item alone, and each list is what the outcomes of its own phase
\* make it, so the four lists do not depend on the order in which the
\* phases run.
C18_PhasesIndependent ==
    InRun =>
       /\ phase = "division" =>
             event_records = <<>> /\ event_errors = <<>>
       /\ phase = "event" =>
             /\ Len(division_records) = ReturnedTotal(Len(events))
             /\ Len(division_errors) = Cardinality(DivisionFailed)
       /\ pc \in {"write", "done"} =>
             /\ \A ph \in {"division", "event"} :
                   /\ \A r \in Requests(ph) :
                         r.url = RequestUrl(ph, events[r.idx])
                   /\ \A i \in Idx :
                         /\ (\E r \in Requests(ph) : r.idx = i)
                               <=> RequestUrl(ph, events[i]) # ""
                         /\ PossibleOutcome(ph, events[i], outcome[ph][i])
             /\ AsSet(division_records) = ExpectedRecords("division")
             /\ AsSet(division_errors) = ExpectedErrors("division")
             /\ AsSet(event_records) = ExpectedRecords("event")
             /\ AsSet(event_errors) = ExpectedErrors("event")

\* A finished run over one item with an event id whose division fetch
\* failed and whose event fetch returned a record, and the reverse for a
\* second item.
C18_Witness ==
    /\ pc = "done"
    /\ Len(events) = 2
    /\ outcome["division"][1].kind = "exc" /\ outcome["event"][1].kind = "ok"
    /\ outcome["division"][2].kind = "ok" /\ outcome["event"][2].kind = "exc"
    /\ outcome["division"][2].val # <<>>
    /\ Requests("division") # {} /\ Requests("event") # {}

====
